---- MODULE Spec2Model ----
(***************************************************************************)
(* A model of the N-puzzle solver: the PuzzleState value type, the         *)
(* NPuzzle object (constructor, solvability check, heuristics, child       *)
(* generation, key generation, path retrace) and the solve() search loop   *)
(* with its priority queue and its two registries.                         *)
(*                                                                         *)
(* Conventions.  A std::vector is a sequence; the code's 0-based index i   *)
(* is position i+1 of the sequence (operator At).  A float is modelled     *)
(* as the integer number of 2^-23 units it holds (FloatOne is 1.0f), with  *)
(* IEEE round-to-nearest-even applied where an addition can be inexact.    *)
(* An unordered_map is a function whose domain is the set of keys it       *)
(* holds; operator[] on a missing key inserts a default PuzzleState.       *)
(***************************************************************************)
EXTENDS Integers, Sequences, FiniteSets, TLC

VARIABLES
  np,             \* the NPuzzle object: a record of its attributes
  pc,             \* where the caller / solve() stands
  heuristic,      \* solve()'s parameter
  frontierQueue,  \* solve()'s local priority queue, as its underlying heap vector
  calls,          \* number of solve() calls made on the current object
  plan,           \* the selectors the caller has still to run, each on a fresh object
  runs,           \* per selector, what the first solve() on a fresh object returned
  cur,            \* a PuzzleState walked by legal blank moves (move exploration)
  steps,          \* number of moves made by the walk
  other,          \* a second PuzzleState (key comparison)
  keys,           \* the keys getKey gave for cur and other
  peak            \* most entries frontierQueue has held during the current solve()

vars ==
  <<np, pc, heuristic, frontierQueue, calls, plan, runs, cur, steps, other, keys, peak>>

-----------------------------------------------------------------------------
(* Bounds of the model *)

\* 3x3 start grids of the search are those at most this many moves from the goal
MaxDepth3 == 6
\* 4x4 start grids of the search are those at most this many moves from the goal
MaxDepth4 == 1
\* solve() calls made on one object
MaxCalls == 2
\* 3x3 start grids run with the selectors without a branch: moves from the goal
MaxDepthUnknown == 4
\* longest grid given to the constructor without regard to validity
MaxCells == 4

-----------------------------------------------------------------------------
(* Floats *)

\* 1.0f in units of 2^-23
FloatOne == 8388608

\* unit in the last place of a float of magnitude n (n >= 1.0f), in 2^-23 units
RECURSIVE Ulp(_)
Ulp(n) == IF n < 2 * FloatOne THEN 1 ELSE 2 * Ulp(n \div 2)

\* Round the real number n + half/2 + (a little, when sticky = 1), in 2^-23
\* units, to the nearest float, ties to even.
RoundFloat(n, half, sticky) ==
  LET U == Ulp(n)
      q == n \div U
      r == n % U
      up == IF U = 1
            THEN half = 1 /\ (sticky = 1 \/ q % 2 = 1)
            ELSE 2 * r > U \/ (2 * r = U /\ (half = 1 \/ sticky = 1 \/ q % 2 = 1))
  IN  (q + (IF up THEN 1 ELSE 0)) * U

\* std::sqrt(int) as a double: hi 2^-23 units, then the 2^-24 bit, then
\* whether anything is left below it
SqrtDouble(n) ==
  CASE n = 0  -> [hi |-> 0,        half |-> 0, sticky |-> 0]
    [] n = 1  -> [hi |-> 8388608,  half |-> 0, sticky |-> 0]
    [] n = 2  -> [hi |-> 11863283, half |-> 0, sticky |-> 1]
    [] n = 4  -> [hi |-> 16777216, half |-> 0, sticky |-> 0]
    [] n = 5  -> [hi |-> 18757497, half |-> 1, sticky |-> 1]
    [] n = 8  -> [hi |-> 23726566, half |-> 0, sticky |-> 1]
    [] n = 9  -> [hi |-> 25165824, half |-> 0, sticky |-> 0]
    [] n = 10 -> [hi |-> 26527107, half |-> 1, sticky |-> 1]
    [] n = 13 -> [hi |-> 30245556, half |-> 0, sticky |-> 1]
    [] n = 18 -> [hi |-> 35589849, half |-> 1, sticky |-> 1]

\* float cost; cost += (double) x
FloatAddDouble(cost, x) == RoundFloat(cost + x.hi, x.half, x.sticky)

\* (float) (int g + float h)
FloatAddInt(g, h) == RoundFloat(g * FloatOne + h, 0, 0)

Abs(x) == IF x < 0 THEN -x ELSE x

\* (int) sqrt(len)
IntSqrt(n) == CHOOSE d \in 0..n : d * d <= n /\ (d + 1) * (d + 1) > n

-----------------------------------------------------------------------------
(* PuzzleState *)

\* vector element i (0-based)
At(s, i) == s[i + 1]

\* PuzzleState()
PuzzleStateDefault ==
  [state |-> <<>>, blankIdx |-> 0, g |-> 0, h |-> 0, f |-> 0, move |-> 0,
   parentKey |-> ""]

\* PuzzleState(std::vector<int> state)
PuzzleStateOf(v) == [PuzzleStateDefault EXCEPT !.state = v]

\* the comparison with its sense reversed
CompareCostReversed(p1, p2) == p1.f < p2.f

\* CompareCost::operator()
CompareCost(p1, p2) == p1.f > p2.f

-----------------------------------------------------------------------------
(* unordered_map<string, PuzzleState> *)

MapEmpty == [k \in {} |-> PuzzleStateDefault]

\* m[k] = v
MapPut(m, k, v) == [x \in DOMAIN m \cup {k} |-> IF x = k THEN v ELSE m[x]]

\* a lookup through operator[] that leaves a default entry under the key
\* whether or not the key was present
MapTouchReset(m, k) == MapPut(m, k, PuzzleStateDefault)

\* the map after m[k] was read: a missing key is inserted with PuzzleState()
MapTouch(m, k) == IF k \in DOMAIN m THEN m ELSE MapPut(m, k, PuzzleStateDefault)

\* the value m[k] reads
MapGet(m, k) == IF k \in DOMAIN m THEN m[k] ELSE PuzzleStateDefault

-----------------------------------------------------------------------------
(* NPuzzle: private methods.  self is the object, of which the methods     *)
(* read len and dim.                                                       *)

\* std::to_string(int), n >= 0
Digit == <<"0", "1", "2", "3", "4", "5", "6", "7", "8", "9">>

RECURSIVE to_string(_)
to_string(n) == IF n < 10 THEN Digit[n + 1]
                ELSE to_string(n \div 10) \o Digit[(n % 10) + 1]

RECURSIVE KeyFrom(_, _, _)
KeyFrom(current, i, len) ==
  IF i >= len THEN "" ELSE to_string(At(current.state, i)) \o KeyFrom(current, i + 1, len)

\* NPuzzle::getKey
getKey(self, current) == KeyFrom(current, 0, self.len)

\* a goal test that passes no state before a move has been made
isGoalAfterMove(self, current) ==
  /\ current.g > 0
  /\ \A i \in 0..(self.len - 1) :
       At(current.state, i) = 0 \/ At(current.state, i) = i + 1

\* NPuzzle::isGoal
isGoal(self, current) ==
  \A i \in 0..(self.len - 1) :
    At(current.state, i) = 0 \/ At(current.state, i) = i + 1

\* an inversion count that takes the blank for a tile
inversionCountWithBlank(start, len) ==
  Cardinality({p \in (0..(len - 1)) \X (0..(len - 1)) :
                  /\ p[1] < p[2]
                  /\ At(start.state, p[2]) < At(start.state, p[1])})

\* the inversions counted by NPuzzle::isSolvable
inversionCount(start, len) ==
  Cardinality({p \in (0..(len - 1)) \X (0..(len - 1)) :
                  /\ p[1] < p[2]
                  /\ At(start.state, p[1]) # 0
                  /\ At(start.state, p[2]) # 0
                  /\ At(start.state, p[2]) < At(start.state, p[1])})

\* a check with the parity of the inversions taken the other way round
isSolvableOddInversions(start, len, dim) ==
  LET inv == inversionCount(start, len)
      rowFromBottom == dim - (start.blankIdx \div dim)
  IN  IF dim % 2 = 1
      THEN inv % 2 = 1
      ELSE \/ inv % 2 = 0 /\ rowFromBottom % 2 = 0
           \/ inv % 2 = 1 /\ rowFromBottom % 2 = 1

\* NPuzzle::isSolvable, on the attributes the constructor has set
isSolvable(start, len, dim) ==
  LET inv == inversionCount(start, len)
      rowFromBottom == dim - (start.blankIdx \div dim)
  IN  IF dim % 2 = 1
      THEN inv % 2 = 0
      ELSE \/ inv % 2 = 1 /\ rowFromBottom % 2 = 0
           \/ inv % 2 = 0 /\ rowFromBottom % 2 = 1

\* a misplaced count that takes the blank for a tile, at home in the last cell
misplacedTileWithBlank(self, current) ==
  FloatOne * Cardinality({i \in 0..(self.len - 1) :
                 At(current.state, i) # (i + 1) % self.len})

\* NPuzzle::misplacedTile
misplacedTile(self, current) ==
  FloatOne * Cardinality({i \in 0..(self.len - 1) :
                 At(current.state, i) # 0 /\ At(current.state, i) # i + 1})

RECURSIVE EuclidFrom(_, _, _, _)
EuclidFrom(self, current, i, cost) ==
  IF i >= self.len THEN cost
  ELSE IF At(current.state, i) = 0 THEN EuclidFrom(self, current, i + 1, cost)
  ELSE LET rowDist == (i \div self.dim) - ((At(current.state, i) - 1) \div self.dim)
           colDist == (i % self.dim) - ((At(current.state, i) - 1) % self.dim)
       IN  EuclidFrom(self, current, i + 1,
             FloatAddDouble(cost, SqrtDouble(rowDist * rowDist + colDist * colDist)))

\* NPuzzle::euclideanDist
euclideanDist(self, current) == EuclidFrom(self, current, 0, 0)

\* |rowDiff| + |colDiff| of the tile at index i
TileManhattan(self, current, i) ==
  LET rowDiff == ((At(current.state, i) - 1) \div self.dim) - (i \div self.dim)
      colDiff == ((At(current.state, i) - 1) % self.dim) - (i % self.dim)
  IN  Abs(rowDiff) + Abs(colDiff)

RECURSIVE ManhattanFrom(_, _, _)
ManhattanFrom(self, current, i) ==
  IF i >= self.len THEN 0
  ELSE (IF At(current.state, i) = 0 THEN 0 ELSE TileManhattan(self, current, i))
       + ManhattanFrom(self, current, i + 1)

\* NPuzzle::manhattanDist
manhattanDist(self, current) == FloatOne * ManhattanFrom(self, current, 0)

\* a row scan that does not ask whether tile j is at home in the row
RowConflictsAnyTile(self, current, i) ==
  IF (At(current.state, i) - 1) \div self.dim # i \div self.dim THEN {}
  ELSE {j \in (i + 1)..(((i \div self.dim) * self.dim) + self.dim - 1) :
          /\ At(current.state, j) # 0
          /\ At(current.state, j) < At(current.state, i)}

\* the indexes j the row scan of tile i adds 2 for
RowConflicts(self, current, i) ==
  IF (At(current.state, i) - 1) \div self.dim # i \div self.dim THEN {}
  ELSE {j \in (i + 1)..(((i \div self.dim) * self.dim) + self.dim - 1) :
          /\ At(current.state, j) # 0
          /\ (At(current.state, j) - 1) \div self.dim = i \div self.dim
          /\ At(current.state, j) < At(current.state, i)}

\* a column scan that looks at every later cell, in whatever column it is
ColConflictsAnyCell(self, current, i) ==
  IF (At(current.state, i) - 1) % self.dim # i % self.dim THEN {}
  ELSE {j \in (i + 1)..(self.len - 1) :
          /\ At(current.state, j) # 0
          /\ (At(current.state, j) - 1) % self.dim = i % self.dim
          /\ At(current.state, j) < At(current.state, i)}

\* the indexes j the column scan of tile i adds 2 for
ColConflicts(self, current, i) ==
  IF (At(current.state, i) - 1) % self.dim # i % self.dim THEN {}
  ELSE {j \in (i + 1)..(self.len - 1) :
          /\ (j - i) % self.dim = 0
          /\ At(current.state, j) # 0
          /\ (At(current.state, j) - 1) % self.dim = i % self.dim
          /\ At(current.state, j) < At(current.state, i)}

RECURSIVE LinearConflictFrom(_, _, _)
LinearConflictFrom(self, current, i) ==
  IF i >= self.len THEN 0
  ELSE (IF At(current.state, i) = 0 THEN 0
        ELSE 2 * Cardinality(RowConflicts(self, current, i))
             + 2 * Cardinality(ColConflicts(self, current, i))
             + TileManhattan(self, current, i))
       + LinearConflictFrom(self, current, i + 1)

\* NPuzzle::manhattanDistLinearConflict
manhattanDistLinearConflict(self, current) ==
  FloatOne * LinearConflictFrom(self, current, 0)

\* a selection that falls back to misplacedTile
getHeuristicCostElseMisplaced(self, current, hsel) ==
  IF hsel = 3 THEN euclideanDist(self, current)
  ELSE IF hsel = 4 THEN manhattanDist(self, current)
  ELSE IF hsel = 5 THEN manhattanDistLinearConflict(self, current)
  ELSE IF hsel = 1 THEN 0
  ELSE misplacedTile(self, current)

\* NPuzzle::getHeuristicCost
getHeuristicCost(self, current, hsel) ==
  IF hsel = 2 THEN misplacedTile(self, current)
  ELSE IF hsel = 3 THEN euclideanDist(self, current)
  ELSE IF hsel = 4 THEN manhattanDist(self, current)
  ELSE IF hsel = 5 THEN manhattanDistLinearConflict(self, current)
  ELSE 0

\* a child whose blankIdx is left as the parent's
MoveBlankStale(current, delta, mv) ==
  [current EXCEPT
     !.state = [current.state EXCEPT
                  ![current.blankIdx + 1] = At(current.state, current.blankIdx + delta),
                  ![current.blankIdx + delta + 1] = 0],
     !.move = mv]

\* the child made by sliding the blank to index current.blankIdx + delta
MoveBlank(current, delta, mv) ==
  [current EXCEPT
     !.state = [current.state EXCEPT
                  ![current.blankIdx + 1] = At(current.state, current.blankIdx + delta),
                  ![current.blankIdx + delta + 1] = 0],
     !.blankIdx = current.blankIdx + delta,
     !.move = mv]

\* children generated in the order UP, DOWN, RIGHT, LEFT
generateChildrenLeftLast(self, current) ==
  LET currentRow == current.blankIdx \div self.dim
      currentCol == current.blankIdx % self.dim
  IN  (IF currentRow > 0 THEN <<MoveBlank(current, -self.dim, 1)>> ELSE <<>>)
      \o (IF currentRow < self.dim - 1 THEN <<MoveBlank(current, self.dim, 2)>> ELSE <<>>)
      \o (IF currentCol < self.dim - 1 THEN <<MoveBlank(current, 1, 4)>> ELSE <<>>)
      \o (IF currentCol > 0 THEN <<MoveBlank(current, -1, 3)>> ELSE <<>>)

\* no child at all, wherever the blank is
generateChildrenNone(self, current) == <<>>

\* NPuzzle::generateChildren
generateChildren(self, current) ==
  LET currentRow == current.blankIdx \div self.dim
      currentCol == current.blankIdx % self.dim
  IN  (IF currentRow > 0 THEN <<MoveBlank(current, -self.dim, 1)>> ELSE <<>>)
      \o (IF currentRow < self.dim - 1 THEN <<MoveBlank(current, self.dim, 2)>> ELSE <<>>)
      \o (IF currentCol > 0 THEN <<MoveBlank(current, -1, 3)>> ELSE <<>>)
      \o (IF currentCol < self.dim - 1 THEN <<MoveBlank(current, 1, 4)>> ELSE <<>>)

\* the walk up the parent keys with each parent put behind the states
\* collected so far instead of in front of them
RECURSIVE RetraceFromAppending(_, _, _)
RetraceFromAppending(explored, path, parentKey) ==
  IF parentKey = "" THEN path
  ELSE LET parent == MapGet(explored, parentKey)
       IN  RetraceFromAppending(explored, path \o <<parent>>, parent.parentKey)

\* the loop of NPuzzle::retracePath: prepend parents until an empty parent key
RECURSIVE RetraceFrom(_, _, _)
RetraceFrom(explored, path, parentKey) ==
  IF parentKey = "" THEN path
  ELSE LET parent == MapGet(explored, parentKey)
       IN  RetraceFrom(explored, <<parent>> \o path, parent.parentKey)

\* a path made of the goal state alone
retracePathGoalOnly(self, current) == <<current>>

\* NPuzzle::retracePath
retracePath(self, current) ==
  RetraceFrom(self.exploredStates, <<current>>, current.parentKey)

-----------------------------------------------------------------------------
(* NPuzzle: constructor *)

\* the index of the first 0 of the vector, 0 when there is none
FindBlank(startState) ==
  IF \E i \in 0..(Len(startState) - 1) : At(startState, i) = 0
  THEN CHOOSE i \in 0..(Len(startState) - 1) :
         At(startState, i) = 0 /\ \A j \in 0..(i - 1) : At(startState, j) # 0
  ELSE 0

\* a constructor that starts the goal depth at 1
NPuzzleDepthOne(startState) ==
  LET st == [PuzzleStateOf(startState) EXCEPT !.blankIdx = FindBlank(startState)]
      ln == Len(startState)
      dm == IntSqrt(ln)
  IN  [start |-> st, len |-> ln, nsz |-> ln - 1, dim |-> dm,
       expanded |-> 0, maxQueue |-> 0, goalDepth |-> 1,
       solvable |-> isSolvable(st, ln, dm),
       result |-> <<>>,
       frontierStates |-> MapEmpty, exploredStates |-> MapEmpty]

\* NPuzzle::NPuzzle
NPuzzle(startState) ==
  LET st == [PuzzleStateOf(startState) EXCEPT !.blankIdx = FindBlank(startState)]
      ln == Len(startState)
      dm == IntSqrt(ln)
  IN  [start |-> st, len |-> ln, nsz |-> ln - 1, dim |-> dm,
       expanded |-> 0, maxQueue |-> 0, goalDepth |-> 0,
       solvable |-> isSolvable(st, ln, dm),
       result |-> <<>>,
       frontierStates |-> MapEmpty, exploredStates |-> MapEmpty]

-----------------------------------------------------------------------------
(* std::priority_queue<PuzzleState, vector<PuzzleState>, CompareCost>: the  *)
(* heap vector a, 0-based, as std::push_heap and std::pop_heap keep it.     *)

\* std::__push_heap: move value up from the hole while the parent compares less
RECURSIVE HeapSiftUp(_, _, _, _)
HeapSiftUp(a, holeIndex, topIndex, value) ==
  LET parent == (holeIndex - 1) \div 2
  IN  IF holeIndex > topIndex /\ CompareCost(At(a, parent), value)
      THEN HeapSiftUp([a EXCEPT ![holeIndex + 1] = At(a, parent)], parent, topIndex, value)
      ELSE [a EXCEPT ![holeIndex + 1] = value]

\* priority_queue::push: push_back, then push_heap
QueuePush(a, value) == HeapSiftUp(Append(a, value), Len(a), 0, value)

\* the first loop of std::__adjust_heap: move the hole down to a leaf along the
\* children that do not compare less; yields the array and the hole
RECURSIVE HeapSiftDown(_, _, _, _)
HeapSiftDown(a, holeIndex, secondChild, len) ==
  IF secondChild < (len - 1) \div 2
  THEN LET sc == 2 * (secondChild + 1)
           pick == IF CompareCost(At(a, sc), At(a, sc - 1)) THEN sc - 1 ELSE sc
       IN  HeapSiftDown([a EXCEPT ![holeIndex + 1] = At(a, pick)], pick, pick, len)
  ELSE IF len % 2 = 0 /\ secondChild = (len - 2) \div 2
  THEN LET sc == 2 * (secondChild + 1)
       IN  [a |-> [a EXCEPT ![holeIndex + 1] = At(a, sc - 1)], hole |-> sc - 1]
  ELSE [a |-> a, hole |-> holeIndex]

\* std::__adjust_heap
HeapAdjust(a, holeIndex, len, value) ==
  LET down == HeapSiftDown(a, holeIndex, holeIndex, len)
  IN  HeapSiftUp(down.a, down.hole, holeIndex, value)

\* priority_queue::pop: pop_heap, then pop_back
QueuePop(a) ==
  IF Len(a) > 1
  THEN HeapAdjust(SubSeq(a, 1, Len(a) - 1), 0, Len(a) - 1, At(a, Len(a) - 1))
  ELSE <<>>

\* priority_queue::top
QueueTop(a) == At(a, 0)

-----------------------------------------------------------------------------
(* NPuzzle::solve *)

\* the heuristic selectors a caller passes (1..5 are the documented ones)
Selectors == 1..5

\* selectors getHeuristicCost has no branch for
UnknownSelectors == {-1, 0, 6}

\* an entry without the short-circuit: the start state is costed and placed
\* whatever the solvability check said
SolveEnterUnchecked(self, hsel) ==
  LET h0 == getHeuristicCost(self, self.start, hsel)
      st == [self.start EXCEPT !.g = 0, !.h = h0, !.f = FloatAddInt(0, h0)]
  IN  [self  |-> [self EXCEPT !.start = st,
                              !.frontierStates = MapPut(@, getKey(self, st), st)],
       queue |-> QueuePush(<<>>, st),
       done  |-> FALSE]

\* an entry that begins each call with empty registries
SolveEnterFresh(self, hsel) ==
  IF ~self.solvable
  THEN [self |-> [self EXCEPT !.result = <<>>], queue |-> <<>>, done |-> TRUE]
  ELSE LET h0 == getHeuristicCost(self, self.start, hsel)
           st == [self.start EXCEPT !.g = 0, !.h = h0, !.f = FloatAddInt(0, h0)]
       IN  [self  |-> [self EXCEPT !.start = st,
                                   !.frontierStates = MapPut(MapEmpty, getKey(self, st), st),
                                   !.exploredStates = MapEmpty],
            queue |-> QueuePush(<<>>, st),
            done  |-> FALSE]

\* lines 178-192: the unsolvable short-circuit, else the start state is costed
\* and placed in the frontier queue and the frontier registry
SolveEnter(self, hsel) ==
  IF ~self.solvable
  THEN [self |-> [self EXCEPT !.result = <<>>], queue |-> <<>>, done |-> TRUE]
  ELSE LET h0 == getHeuristicCost(self, self.start, hsel)
           st == [self.start EXCEPT !.g = 0, !.h = h0, !.f = FloatAddInt(0, h0)]
       IN  [self  |-> [self EXCEPT !.start = st,
                                   !.frontierStates = MapPut(@, getKey(self, st), st)],
            queue |-> QueuePush(<<>>, st),
            done  |-> FALSE]

\* the pass over a child without line 245: the child is pushed on the queue
\* and the frontier registry is left without it
AdmitChildUnregistered(self, acc, current, currentKey, child, hsel) ==
  LET childKey == getKey(self, child)
      fs == MapTouch(acc.frontierStates, childKey)
  IN  IF fs[childKey].state # <<>>
      THEN [acc EXCEPT !.frontierStates = fs]
      ELSE LET es == MapTouch(acc.exploredStates, childKey)
           IN  IF es[childKey].state # <<>>
               THEN [acc EXCEPT !.frontierStates = fs, !.exploredStates = es]
               ELSE LET hc == getHeuristicCost(self, child, hsel)
                        c  == [child EXCEPT !.g = current.g + 1,
                                            !.h = hc,
                                            !.f = FloatAddInt(current.g + 1, hc),
                                            !.parentKey = currentKey]
                    IN  [queue |-> QueuePush(acc.queue, c),
                         frontierStates |-> fs,
                         exploredStates |-> es]

\* the pass over a child with the child's own key written as its parent key
AdmitChildSelfParent(self, acc, current, currentKey, child, hsel) ==
  LET childKey == getKey(self, child)
      fs == MapTouch(acc.frontierStates, childKey)
  IN  IF fs[childKey].state # <<>>
      THEN [acc EXCEPT !.frontierStates = fs]
      ELSE LET es == MapTouch(acc.exploredStates, childKey)
           IN  IF es[childKey].state # <<>>
               THEN [acc EXCEPT !.frontierStates = fs, !.exploredStates = es]
               ELSE LET hc == getHeuristicCost(self, child, hsel)
                        c  == [child EXCEPT !.g = current.g + 1,
                                            !.h = hc,
                                            !.f = FloatAddInt(current.g + 1, hc),
                                            !.parentKey = childKey]
                    IN  [queue |-> QueuePush(acc.queue, c),
                         frontierStates |-> MapPut(fs, childKey, c),
                         exploredStates |-> es]

\* the pass over a child with the test of line 231 alone: a child whose key
\* the explored registry holds is admitted again
AdmitChildFrontierOnly(self, acc, current, currentKey, child, hsel) ==
  LET childKey == getKey(self, child)
      fs == MapTouch(acc.frontierStates, childKey)
  IN  IF fs[childKey].state # <<>>
      THEN [acc EXCEPT !.frontierStates = fs]
      ELSE LET hc == getHeuristicCost(self, child, hsel)
               c  == [child EXCEPT !.g = current.g + 1,
                                   !.h = hc,
                                   !.f = FloatAddInt(current.g + 1, hc),
                                   !.parentKey = currentKey]
           IN  [queue |-> QueuePush(acc.queue, c),
                frontierStates |-> MapPut(fs, childKey, c),
                exploredStates |-> acc.exploredStates]

\* lines 230-245: one pass of the loop over the children; acc is the queue and
\* the two registries so far
AdmitChild(self, acc, current, currentKey, child, hsel) ==
  LET childKey == getKey(self, child)
      fs == MapTouch(acc.frontierStates, childKey)
  IN  IF fs[childKey].state # <<>>
      THEN [acc EXCEPT !.frontierStates = fs]
      ELSE LET es == MapTouch(acc.exploredStates, childKey)
           IN  IF es[childKey].state # <<>>
               THEN [acc EXCEPT !.frontierStates = fs, !.exploredStates = es]
               ELSE LET hc == getHeuristicCost(self, child, hsel)
                        c  == [child EXCEPT !.g = current.g + 1,
                                            !.h = hc,
                                            !.f = FloatAddInt(current.g + 1, hc),
                                            !.parentKey = currentKey]
                    IN  [queue |-> QueuePush(acc.queue, c),
                         frontierStates |-> MapPut(fs, childKey, c),
                         exploredStates |-> es]

RECURSIVE AdmitChildren(_, _, _, _, _, _, _)
AdmitChildren(self, acc, current, currentKey, children, i, hsel) ==
  IF i > Len(children) THEN acc
  ELSE AdmitChildren(self,
                     AdmitChild(self, acc, current, currentKey, children[i], hsel),
                     current, currentKey, children, i + 1, hsel)

\* lines 202-251: the body of the while loop once current was taken from the
\* queue and popped is what the queue holds after the pop
SolveIterateOn(self, current, popped, hsel) ==
  LET currentKey == getKey(self, current)
      fs0        == MapPut(self.frontierStates, currentKey, PuzzleStateDefault)
      self0      == [self EXCEPT !.frontierStates = fs0]
  IN  IF isGoal(self, current)
      THEN LET path == retracePath(self0, current)
           IN  [self  |-> [self0 EXCEPT !.result = path, !.goalDepth = Len(path)],
                queue |-> popped, done |-> TRUE]
      ELSE LET es0 == MapTouch(self.exploredStates, currentKey)
           IN  IF es0[currentKey].state = <<>>
               THEN LET acc == AdmitChildren(self,
                                 [queue |-> popped, frontierStates |-> fs0,
                                  exploredStates |-> MapPut(es0, currentKey, current)],
                                 current, currentKey,
                                 generateChildren(self, current), 1, hsel)
                    IN  [self |-> [self0 EXCEPT
                                     !.expanded = @ + 1,
                                     !.frontierStates = acc.frontierStates,
                                     !.exploredStates = acc.exploredStates,
                                     !.maxQueue = IF Len(acc.queue) > @
                                                  THEN Len(acc.queue) ELSE @],
                         queue |-> acc.queue, done |-> FALSE]
               ELSE [self  |-> [self0 EXCEPT !.exploredStates = es0],
                     queue |-> popped, done |-> FALSE]

\* lines 199-251: one iteration of the while loop on a non-empty queue, on the
\* state the priority queue has on top
SolveIterate(self, queue, hsel) ==
  SolveIterateOn(self, QueueTop(queue), QueuePop(queue), hsel)

-----------------------------------------------------------------------------
(* Start grids *)

\* the canonical ascending arrangement of a dim x dim grid
GoalGrid(dim) == [i \in 1..(dim * dim) |-> IF i = dim * dim THEN 0 ELSE i]

\* the grids one legal blank move away from grid
GridMoves(grid) ==
  LET p == NPuzzle(grid)
      ch == generateChildren(p, p.start)
  IN  {ch[i].state : i \in 1..Len(ch)}

\* breadth-first layers around a set of grids: layers[k + 1] holds the grids
\* exactly k moves away, for k up to radius
RECURSIVE BfsLayers(_, _, _)
BfsLayers(seen, layers, radius) ==
  IF Len(layers) > radius THEN layers
  ELSE LET last == layers[Len(layers)]
           nxt  == (UNION {GridMoves(g) : g \in last}) \ (seen \cup last)
       IN  BfsLayers(seen \cup last, Append(layers, nxt), radius)

\* the grids at most radius moves away from grid
Ball(grid, radius) ==
  LET layers == BfsLayers({}, <<{grid}>>, radius)
  IN  UNION {layers[k] : k \in 1..Len(layers)}

\* all arrangements of the tiles 0..3 on a 2x2 grid
Grids2 == {g \in [1..4 -> 0..3] : \A i, j \in 1..4 : g[i] = g[j] => i = j}

\* DefaultPuzzle::easy
Easy3 == <<1, 2, 0, 4, 5, 3, 7, 8, 6>>

\* DefaultPuzzle::impossible and DefaultPuzzle::Fifteen::impossible
Impossible3 == <<1, 2, 3, 4, 5, 6, 8, 7, 0>>
Impossible4 == <<1, 2, 3, 4, 5, 6, 7, 8, 9, 10, 11, 12, 13, 15, 14, 0>>

\* the selectors run on a grid, each on a fresh object
FullPlan == <<1, 2, 3, 4, 5>>

\* UniformCost followed by the selectors without a branch
UnknownPlan == <<1, 0, 6, -1>>

Instances ==
  {[grid |-> g, plan |-> FullPlan] :
     g \in Grids2 \cup Ball(GoalGrid(3), MaxDepth3) \cup Ball(Impossible3, 1)
           \cup Ball(GoalGrid(4), MaxDepth4) \cup {Impossible4}}
  \cup {[grid |-> g, plan |-> UnknownPlan] :
          g \in Grids2 \cup Ball(GoalGrid(3), MaxDepthUnknown) \cup {Impossible3}}
  \cup {[grid |-> <<1, 2, 3, 7, 0, 8, 5, 6, 4>>, plan |-> <<2, 4, 5>>],
        [grid |-> <<4, 1, 2, 0, 5, 6, 7, 3, 8>>, plan |-> <<4, 5>>]}

-----------------------------------------------------------------------------
(* The search: a caller constructs an NPuzzle, calls solve(), may call it   *)
(* again, and goes on to a fresh object for the next selector of its plan.  *)

\* what a returned solve() left in the object
RunOf(self) ==
  [result |-> self.result, expanded |-> self.expanded,
   maxQueue |-> self.maxQueue, goalDepth |-> self.goalDepth]

\* the record of first calls, extended when the call returning is a first call
Logged(self, hsel, ncalls) ==
  IF ncalls = 1
  THEN [x \in DOMAIN runs \cup {hsel} |-> IF x = hsel THEN RunOf(self) ELSE runs[x]]
  ELSE runs

NoWalk ==
  cur = PuzzleStateDefault /\ other = PuzzleStateDefault /\ steps = 0 /\ keys = <<>>

Init ==
  /\ \E inst \in Instances :
       /\ np = NPuzzle(inst.grid)
       /\ plan = inst.plan
  /\ pc = "constructed"
  /\ heuristic = 0
  /\ frontierQueue = <<>>
  /\ calls = 0
  /\ runs = [x \in {} |-> RunOf(np)]
  /\ peak = 0
  /\ NoWalk

\* solve(h) is called: the first call on an object takes the plan's next selector
SolveCall ==
  /\ pc \in {"constructed", "returned"}
  /\ calls < MaxCalls
  /\ \E hsel \in Selectors \cup UnknownSelectors :
       /\ calls = 0 => plan # <<>> /\ hsel = Head(plan)
       /\ LET r == SolveEnter(np, hsel)
          IN  /\ np' = r.self
              /\ frontierQueue' = r.queue
              /\ pc' = IF r.done THEN "returned" ELSE "loop"
              /\ runs' = IF r.done THEN Logged(r.self, hsel, calls + 1) ELSE runs
              /\ peak' = Len(r.queue)
       /\ heuristic' = hsel
  /\ plan' = IF calls = 0 THEN Tail(plan) ELSE plan
  /\ calls' = calls + 1
  /\ UNCHANGED <<cur, steps, other, keys>>

\* one iteration of the while loop
SolveLoop ==
  /\ pc = "loop"
  /\ frontierQueue # <<>>
  /\ LET r == SolveIterate(np, frontierQueue, heuristic)
     IN  /\ np' = r.self
         /\ frontierQueue' = IF r.done THEN <<>> ELSE r.queue
         /\ pc' = IF r.done THEN "returned" ELSE "loop"
         /\ runs' = IF r.done THEN Logged(r.self, heuristic, calls) ELSE runs
         /\ peak' = IF Len(r.queue) > peak THEN Len(r.queue) ELSE peak
  /\ UNCHANGED <<heuristic, calls, plan, cur, steps, other, keys>>

\* the queue is empty: the loop ends and solve() returns result as it stands
SolveExhausted ==
  /\ pc = "loop"
  /\ frontierQueue = <<>>
  /\ pc' = "returned"
  /\ runs' = Logged(np, heuristic, calls)
  /\ UNCHANGED <<np, heuristic, frontierQueue, calls, plan, cur, steps, other, keys, peak>>

\* the caller constructs a fresh object on the same grid for the next selector
Construct ==
  /\ pc = "returned"
  /\ plan # <<>>
  /\ np' = NPuzzle(np.start.state)
  /\ pc' = "constructed"
  /\ calls' = 0
  /\ peak' = 0
  /\ UNCHANGED <<heuristic, frontierQueue, runs, plan, cur, steps, other, keys>>

Next == SolveCall \/ SolveLoop \/ SolveExhausted \/ Construct

Spec == Init /\ [][Next]_vars

\* the condition under which the while loop makes one more iteration; every
\* such iteration takes a state off the queue, so SolveLoop is enabled, as a
\* step that changes the variables, exactly when this holds
LoopCanIterate == pc = "loop" /\ frontierQueue # <<>>

\* the grids on which complete runs of solve() are followed to their return,
\* each searched under every selector
InstancesFair ==
  {[grid |-> g, plan |-> p] :
     g \in Grids2 \cup Ball(GoalGrid(3), MaxDepthUnknown)
           \cup Ball(GoalGrid(4), MaxDepth4) \cup {Impossible3},
     p \in {FullPlan, UnknownPlan}}

InitFair ==
  /\ \E inst \in InstancesFair :
       /\ np = NPuzzle(inst.grid)
       /\ plan = inst.plan
  /\ pc = "constructed"
  /\ heuristic = 0
  /\ frontierQueue = <<>>
  /\ calls = 0
  /\ runs = [x \in {} |-> RunOf(np)]
  /\ peak = 0
  /\ NoWalk

\* solve() runs to completion once called: the while loop falls through to the
\* return when the queue is empty (weak fairness of SolveExhausted) and goes on
\* iterating while it is not (weak fairness of SolveLoop, written with
\* LoopCanIterate for ENABLED <<SolveLoop>>_vars)
SpecFair ==
  /\ InitFair /\ [][Next]_vars
  /\ WF_vars(SolveExhausted)
  /\ ([]<>~LoopCanIterate) \/ ([]<><<SolveLoop>>_vars)

-----------------------------------------------------------------------------
(* Exploration of the move graph: generateChildren applied again and again  *)
(* from the goal arrangement and from an arrangement with two tiles         *)
(* exchanged, on the 2x2 and the 3x3 grid.                                  *)

NoSearch ==
  /\ heuristic = 0 /\ frontierQueue = <<>> /\ calls = 0 /\ plan = <<>>
  /\ peak = 0
  /\ runs = [x \in {} |-> RunOf(np)]

\* the 2x2 goal with tiles 1 and 2 exchanged
Exchanged2 == <<2, 1, 3, 0>>

MoveRoots == {GoalGrid(2), Exchanged2, GoalGrid(3), Impossible3}

InitMoves ==
  /\ \E root \in MoveRoots : np = NPuzzle(root)
  /\ cur = np.start
  /\ pc = "moves"
  /\ steps = 0 /\ other = PuzzleStateDefault /\ keys = <<>>
  /\ NoSearch

\* a child as the state to move from next: the record of the move that made
\* it, which neither generateChildren nor a heuristic reads, is cleared
Unmoved(child) == [child EXCEPT !.move = 0]

\* one legal blank move: cur becomes one of its children
Move ==
  /\ pc = "moves"
  /\ \E i \in 1..Len(generateChildren(np, cur)) :
       cur' = Unmoved(generateChildren(np, cur)[i])
  /\ UNCHANGED <<np, pc, heuristic, frontierQueue, calls, plan, runs, steps, other, keys,
               peak>>

SpecMoves == InitMoves /\ [][Move]_vars

-----------------------------------------------------------------------------
(* Child generation on all three grid sizes: every arrangement of the 2x2   *)
(* and the 3x3 grid, and the 4x4 arrangements within MaxMoves4 moves of the *)
(* goal and of DefaultPuzzle::Fifteen::impossible.                          *)

\* longest sequence of moves followed on the 4x4 grid
MaxMoves4 == 10

ChildRoots == MoveRoots \cup {GoalGrid(4), Impossible4}

InitChildren ==
  /\ \E root \in ChildRoots : np = NPuzzle(root)
  /\ cur = np.start
  /\ pc = "moves"
  /\ steps = 0 /\ other = PuzzleStateDefault /\ keys = <<>>
  /\ NoSearch

\* one legal blank move on the 2x2 or the 3x3 grid
MoveSmall == np.dim < 4 /\ Move

\* one legal blank move on the 4x4 grid, counted
MoveCounted ==
  /\ pc = "moves"
  /\ np.dim = 4
  /\ steps < MaxMoves4
  /\ \E i \in 1..Len(generateChildren(np, cur)) :
       cur' = Unmoved(generateChildren(np, cur)[i])
  /\ steps' = steps + 1
  /\ UNCHANGED <<np, pc, heuristic, frontierQueue, calls, plan, runs, other, keys, peak>>

NextChildren == MoveSmall \/ MoveCounted

SpecChildren == InitChildren /\ [][NextChildren]_vars

\* the same exploration, as the domain on which the values of the heuristic
\* functions are compared state by state
SpecHeuristics == InitChildren /\ [][NextChildren]_vars

-----------------------------------------------------------------------------
(* Walks of counted length from a start grid *)

\* longest walk followed
MaxSteps == 26

WalkStarts ==
  {g \in Grids2 : NPuzzle(g).solvable} \cup {<<8, 7, 0, 6, 5, 4, 3, 2, 1>>}

InitWalk ==
  /\ \E g \in WalkStarts : np = NPuzzle(g)
  /\ cur = np.start
  /\ pc = "walk"
  /\ steps = 0 /\ other = PuzzleStateDefault /\ keys = <<>>
  /\ NoSearch

\* one legal blank move, counted
Step ==
  /\ pc = "walk"
  /\ steps < MaxSteps
  /\ \E i \in 1..Len(generateChildren(np, cur)) :
       cur' = Unmoved(generateChildren(np, cur)[i])
  /\ steps' = steps + 1
  /\ UNCHANGED <<np, pc, heuristic, frontierQueue, calls, plan, runs, other, keys, peak>>

SpecWalk == InitWalk /\ [][Step]_vars

-----------------------------------------------------------------------------
(* getKey applied to two states of one puzzle size *)

\* a solvable 4x4 arrangement with the tiles 1, 2, 12 side by side
KeyBase4 == <<1, 2, 12, 4, 3, 5, 6, 7, 8, 9, 10, 11, 13, 14, 15, 0>>

\* the arrangements of grid with its first four cells permuted
FirstRowPermuted(grid) ==
  {[i \in 1..Len(grid) |-> IF i <= 4 THEN grid[q[i]] ELSE grid[i]] :
     q \in {f \in [1..4 -> 1..4] : \A i, j \in 1..4 : f[i] = f[j] => i = j}}

KeyGrids(dim) ==
  IF dim = 2 THEN Grids2
  ELSE IF dim = 3 THEN Ball(GoalGrid(3), 2)
  ELSE FirstRowPermuted(KeyBase4)

InitKeys ==
  /\ \E dim \in 2..4 :
       /\ np = NPuzzle(GoalGrid(dim))
       /\ \E a, b \in KeyGrids(dim) :
            /\ cur = NPuzzle(a).start
            /\ other = NPuzzle(b).start
  /\ pc = "keys"
  /\ steps = 0 /\ keys = <<>>
  /\ NoSearch

\* both keys are generated
MakeKeys ==
  /\ pc = "keys"
  /\ keys' = <<getKey(np, cur), getKey(np, other)>>
  /\ pc' = "keyed"
  /\ UNCHANGED <<np, heuristic, frontierQueue, calls, plan, runs, cur, steps, other, peak>>

SpecKeys == InitKeys /\ [][MakeKeys]_vars

-----------------------------------------------------------------------------
(* The constructor given any vector of small integers, valid grid or not,   *)
(* and solve() on the object it makes.                                      *)

\* a grid as the constructor's contract wants it: a square number of cells,
\* exactly one of them 0
ValidGrid(startState) ==
  /\ IntSqrt(Len(startState)) * IntSqrt(Len(startState)) = Len(startState)
  /\ Cardinality({i \in 1..Len(startState) : startState[i] = 0}) = 1

SmallGrids == UNION {[1..n -> 0..3] : n \in 1..MaxCells}

InitGrids ==
  /\ \E g \in SmallGrids : np = NPuzzle(g)
  /\ plan \in {<<1, 4>>, <<5, 2>>}
  /\ pc = "constructed"
  /\ heuristic = 0
  /\ frontierQueue = <<>>
  /\ calls = 0
  /\ runs = [x \in {} |-> RunOf(np)]
  /\ peak = 0
  /\ NoWalk

SpecGrids == InitGrids /\ [][Next]_vars

-----------------------------------------------------------------------------
(* The search with the order among equal costs left open: CompareCost       *)
(* orders the queue by f alone, so which of several states of least f the   *)
(* priority queue has on top is an accident of its layout.  Here any of     *)
(* them may be the one top() returns.                                       *)

\* deepest 3x3 start grid, in moves from the goal, searched with open ties
MaxDepthTies == 2

\* every position of the queue, whatever the cost of the state there
EligibleAny(queue) == 1..Len(queue)

\* the positions of the queue holding a state that CompareCost puts behind no
\* other state of the queue
Eligible(queue) ==
  {i \in 1..Len(queue) :
     \A j \in 1..Len(queue) : ~CompareCost(queue[i], queue[j])}

\* the queue after the state at position i was popped
Without(queue, i) == SubSeq(queue, 1, i - 1) \o SubSeq(queue, i + 1, Len(queue))

\* the dictionary order of two tile sequences of one length
LexLess(a, b) ==
  \E i \in 1..Len(a) : a[i] < b[i] /\ \A j \in 1..(i - 1) : a[j] = b[j]

\* the queue as a collection: with the choice of top() left open the layout of
\* the queue says nothing, and its states are kept in one fixed order
Collected(queue) == SortSeq(queue, LAMBDA a, b : LexLess(a.state, b.state))

InitTies ==
  /\ \E g \in Grids2 \cup Ball(GoalGrid(3), MaxDepthTies) : np = NPuzzle(g)
  /\ plan = <<1>>
  /\ pc = "constructed"
  /\ heuristic = 0
  /\ frontierQueue = <<>>
  /\ calls = 0
  /\ runs = [x \in {} |-> RunOf(np)]
  /\ peak = 0
  /\ NoWalk

\* one iteration of the while loop on any state of least f
SolveLoopAnyTie ==
  /\ pc = "loop"
  /\ frontierQueue # <<>>
  /\ \E i \in Eligible(frontierQueue) :
       LET r == SolveIterateOn(np, frontierQueue[i], Without(frontierQueue, i),
                               heuristic)
       IN  /\ np' = r.self
           /\ frontierQueue' = IF r.done THEN <<>> ELSE Collected(r.queue)
           /\ pc' = IF r.done THEN "returned" ELSE "loop"
           /\ runs' = IF r.done THEN Logged(r.self, heuristic, calls) ELSE runs
           /\ peak' = IF Len(r.queue) > peak THEN Len(r.queue) ELSE peak
  /\ UNCHANGED <<heuristic, calls, plan, cur, steps, other, keys>>

\* the one solve() call made on each object
FirstCall == calls = 0 /\ SolveCall

NextTies == FirstCall \/ SolveLoopAnyTie

SpecTies == InitTies /\ [][NextTies]_vars

-----------------------------------------------------------------------------
(* The search on 4x4 grids that lie next to a pair of arrangements with one *)
(* key.  getKey writes the tiles without a separator, so "12","3" and       *)
(* "1","2","3" are the same characters; the registries of solve() then hold *)
(* one entry for both arrangements.  These grids are far from the goal, and *)
(* the search is followed for a bounded number of expansions.               *)

\* the expansions of one solve() call that are followed on these grids
MaxExpanded4 == 100

\* a solvable 4x4 arrangement whose key is the key of the goal arrangement:
\* 12,3,...,10,1,11,2 and 1,2,3,...,10,11,12 are both "123456789101112"
GoalKeyTwin4 == <<12, 3, 4, 5, 6, 7, 8, 9, 10, 1, 11, 2, 13, 14, 15, 0>>

\* a solvable 4x4 arrangement six moves from each of two arrangements with the
\* key "3210104567891112131415": 3,2,10,1,0,4,... and 3,2,1,0,10,4,...
TwinsAhead4 == <<2, 0, 5, 1, 3, 10, 4, 6, 7, 8, 9, 11, 12, 13, 14, 15>>

\* the goal's twin under each documented selector, and the grid between two
\* twins under UniformCost
InstancesFifteen ==
  {[grid |-> GoalKeyTwin4, plan |-> <<hsel>>] : hsel \in Selectors}
  \cup {[grid |-> TwinsAhead4, plan |-> <<1>>]}

InitFifteen ==
  /\ \E inst \in InstancesFifteen :
       /\ np = NPuzzle(inst.grid)
       /\ plan = inst.plan
  /\ pc = "constructed"
  /\ heuristic = 0
  /\ frontierQueue = <<>>
  /\ calls = 0
  /\ runs = [x \in {} |-> RunOf(np)]
  /\ peak = 0
  /\ NoWalk

\* one iteration of the while loop, followed up to MaxExpanded4 expansions
SolveLoopCapped == np.expanded < MaxExpanded4 /\ SolveLoop

NextFifteen == FirstCall \/ SolveLoopCapped

SpecFifteen == InitFifteen /\ [][NextFifteen]_vars

-----------------------------------------------------------------------------
(* Properties of the search *)

\* a first solve() on a fresh object has returned
FirstCallReturned == pc = "returned" /\ calls = 1

\* C1, at the return of solve(): the path a first solve() returns is empty
\* exactly when the solvability check was false, and otherwise starts with the
\* start's tile sequence and ends with the goal arrangement
C1_PathEndpoints ==
  FirstCallReturned =>
    /\ (np.result = <<>>) <=> ~np.solvable
    /\ np.result # <<>> =>
         /\ np.result[1].state = np.start.state
         /\ np.result[Len(np.result)].state = GoalGrid(np.dim)

\* a return at which C1_PathEndpoints says something: a solvable 3x3 grid
\* solved under the Euclidean heuristic by a path of several moves
C1_Witness ==
  /\ FirstCallReturned /\ heuristic = 3 /\ np.dim = 3
  /\ Len(np.result) >= 4
  /\ np.result[1].state = np.start.state

\* the key of the goal arrangement of the object's puzzle size
GoalKey(self) == getKey(self, PuzzleStateOf(GoalGrid(self.dim)))

\* C1: a first solve() on a fresh object of a valid grid returns an empty path
\* exactly when the solvability check was false and otherwise a path from the
\* start's tile sequence to the goal arrangement; and while the search of a
\* solvable grid is under way such a path can still come about: the goal's
\* key, under which the goal must be admitted to be popped, is held in
\* neither registry by another arrangement
C1_PathToGoal ==
  /\ C1_PathEndpoints
  /\ (calls = 1 /\ pc = "loop" /\ np.solvable) =>
       /\ MapGet(np.frontierStates, GoalKey(np)).state \in {<<>>, GoalGrid(np.dim)}
       /\ MapGet(np.exploredStates, GoalKey(np)).state \in {<<>>, GoalGrid(np.dim)}

\* the number of moves of a shortest sequence of legal blank moves from grid to
\* target, found breadth-first; -1 when there is none of at most radius moves
RECURSIVE BfsDepth(_, _, _, _, _)
BfsDepth(seen, layer, target, k, radius) ==
  IF target \in layer THEN k
  ELSE IF k >= radius \/ layer = {} THEN -1
  ELSE BfsDepth(seen \cup layer,
                (UNION {GridMoves(g) : g \in layer}) \ (seen \cup layer),
                target, k + 1, radius)

\* deepest breadth-first search made for a reference distance
BfsRadius == 8

ShortestMoves(grid) ==
  BfsDepth({}, {grid}, GoalGrid(IntSqrt(Len(grid))), 0, BfsRadius)

\* C2: under UniformCost the returned path of a solvable 2x2 or 3x3 grid has
\* as many moves as the breadth-first shortest distance from start to goal
C2_UniformCostShortest ==
  (FirstCallReturned /\ heuristic = 1 /\ np.solvable /\ np.dim <= 3
     /\ ShortestMoves(np.start.state) >= 0) =>
    Len(np.result) - 1 = ShortestMoves(np.start.state)

\* C2 witness: a UniformCost run has returned a 3x3 path of four moves, the
\* breadth-first distance of its start grid
C2_Witness ==
  /\ FirstCallReturned /\ heuristic = 1 /\ np.dim = 3
  /\ Len(np.result) = 5
  /\ ShortestMoves(np.start.state) = 4

\* C3: on one grid, the first calls made with different selectors return
\* paths of the same length
C3_SameLengthAllSelectors ==
  \A a, b \in DOMAIN runs : Len(runs[a].result) = Len(runs[b].result)

\* on the 2x2 grid, by breadth-first search from each of the 24 arrangements
Solvable2IffReachable ==
  /\ \A g \in Grids2 : NPuzzle(g).solvable <=> (GoalGrid(2) \in Ball(g, 12))
  /\ 2 * Cardinality({g \in Grids2 : NPuzzle(g).solvable}) = Cardinality(Grids2)

\* C4: isSolvable() is true of every arrangement the legal blank moves reach
\* from the goal and false of every arrangement they reach from a goal with two
\* tiles exchanged, from which they never reach the goal; on the 2x2 grid it is
\* true of exactly the arrangements with the goal within reach, half of all
C4_SolvableIffReachable ==
  /\ pc = "moves" =>
       /\ NPuzzle(cur.state).solvable <=> (np.start.state = GoalGrid(np.dim))
       /\ isGoal(np, cur) => np.start.state = GoalGrid(np.dim)
  /\ Solvable2IffReachable

\* C4 witness: a 3x3 arrangement with the blank in the first cell, reached by
\* moves from DefaultPuzzle::impossible, is marked unsolvable
C4_Witness ==
  /\ pc = "moves" /\ np.start.state = Impossible3
  /\ cur.blankIdx = 0 /\ cur.state[9] # 0
  /\ ~NPuzzle(cur.state).solvable

\* C5: with the solvability check false, solve() returns the empty path, admits
\* no state to either registry and leaves the three statistics at zero
C5_UnsolvableShortCircuit ==
  (pc = "returned" /\ calls >= 1 /\ ~np.solvable) =>
    /\ np.result = <<>>
    /\ DOMAIN np.frontierStates = {}
    /\ DOMAIN np.exploredStates = {}
    /\ np.expanded = 0 /\ np.maxQueue = 0 /\ np.goalDepth = 0

\* C5 witness: solve() has returned on DefaultPuzzle::impossible
C5_Witness ==
  /\ FirstCallReturned /\ np.start.state = Impossible3
  /\ ~np.solvable /\ np.result = <<>>

\* C6: a walk of legal blank moves from a solvable start never arrives at the
\* goal in fewer moves than manhattanDistLinearConflict gives for the start
C6_LinearConflictAdmissible ==
  (pc = "walk" /\ isGoal(np, cur)) =>
    manhattanDistLinearConflict(np, np.start) <= steps * FloatOne

\* C7: manhattanDistLinearConflict is 0 at the goal and drops by at most one
\* move's cost from a state to any child generateChildren produces from it
C7_LinearConflictConsistent ==
  (pc = "moves" /\ np.solvable) =>
    LET children == generateChildren(np, cur)
        conflict == manhattanDistLinearConflict(np, cur)
    IN  /\ isGoal(np, cur) => conflict = 0
        /\ \A i \in 1..Len(children) :
             conflict <= FloatOne + manhattanDistLinearConflict(np, children[i])

\* C8: misplacedTile and manhattanDist are 0 at the goal and drop by at most
\* one move's cost from a state to any child
C8_MisplacedManhattanConsistent ==
  pc = "moves" =>
    LET children  == generateChildren(np, cur)
        misplaced == misplacedTile(np, cur)
        manhattan == manhattanDist(np, cur)
    IN  /\ isGoal(np, cur) => misplaced = 0 /\ manhattan = 0
        /\ \A i \in 1..Len(children) :
             /\ misplaced <= FloatOne + misplacedTile(np, children[i])
             /\ manhattan <= FloatOne + manhattanDist(np, children[i])

\* C8 witness: a solvable 3x3 state far from the goal with a child for which
\* both bounds are tight
C8_Witness ==
  /\ pc = "moves" /\ np.dim = 3 /\ np.solvable
  /\ manhattanDist(np, cur) >= 6 * FloatOne
  /\ \E i \in 1..Len(generateChildren(np, cur)) :
       LET child == generateChildren(np, cur)[i]
       IN  /\ misplacedTile(np, cur) = FloatOne + misplacedTile(np, child)
           /\ manhattanDist(np, cur) = FloatOne + manhattanDist(np, child)

\* C9: on one grid, the nodes expanded by the first calls are ordered
\* ManhattanLinearConflict <= Manhattan <= MisplacedTile <= UniformCost
C9_ExpandedOrdered ==
  \A pair \in {<<5, 4>>, <<4, 2>>, <<2, 1>>} :
    (pair[1] \in DOMAIN runs /\ pair[2] \in DOMAIN runs) =>
      runs[pair[1]].expanded <= runs[pair[2]].expanded


\* C10: two states of one puzzle size get the same key exactly when their tile
\* sequences are equal
C10_KeysCollisionFree ==
  pc = "keyed" => ((keys[1] = keys[2]) <=> (cur.state = other.state))


\* C11: solve() never runs on an object made from a vector that is not a
\* valid grid
C11_InvalidGridRejected ==
  pc \in {"loop", "returned"} => ValidGrid(np.start.state)

\* C12: a first solve() with a selector without a branch returns the path and
\* the statistics the first solve() with UniformCost returns on the same grid,
\* and every state it queues has heuristic cost 0
C12_UnknownSelectorAsUniformCost ==
  /\ \A u \in UnknownSelectors :
       (u \in DOMAIN runs /\ 1 \in DOMAIN runs) => runs[u] = runs[1]
  /\ (pc = "loop" /\ heuristic \in UnknownSelectors) =>
       \A i \in 1..Len(frontierQueue) :
         frontierQueue[i].h = 0 /\ frontierQueue[i].f = frontierQueue[i].g * FloatOne

\* C12 witness: selector 6 and UniformCost have both returned a path of
\* several moves on one 3x3 grid
C12_Witness ==
  /\ 6 \in DOMAIN runs /\ 1 \in DOMAIN runs
  /\ Len(runs[6].result) >= 4
  /\ runs[6].expanded = runs[1].expanded /\ runs[6].expanded >= 4


\* a first solve() with UniformCost or Manhattan has returned on DefaultPuzzle::easy
EasyReturned ==
  FirstCallReturned /\ np.start.state = Easy3 /\ heuristic \in {1, 4}

\* C13 as stated: on {1,2,0,4,5,3,7,8,6} UniformCost and Manhattan return a
\* path of 6 states, the start and 5 moves, ending at the goal arrangement
C13_EasySixStates ==
  EasyReturned =>
    /\ np.solvable
    /\ Len(np.result) = 6
    /\ np.result[Len(np.result)].state = GoalGrid(3)

\* C13: on {1,2,0,4,5,3,7,8,6} UniformCost and Manhattan return a path of 3
\* states, the start and 2 moves, ending at the goal arrangement, and the
\* goal depth is 3
C13_EasyThreeStates ==
  EasyReturned =>
    /\ np.solvable
    /\ Len(np.result) = 3 /\ np.goalDepth = 3
    /\ np.result[1].state = Easy3
    /\ np.result[3].state = GoalGrid(3)

\* C13 witness: Manhattan has returned on DefaultPuzzle::easy after the two
\* moves DOWN, DOWN
C13_Witness ==
  /\ EasyReturned /\ heuristic = 4
  /\ Len(np.result) = 3
  /\ np.result[2].move = 2 /\ np.result[3].move = 2


\* C14: when the start grid is the goal arrangement, a first solve() returns
\* the start alone and has expanded no node
C14_GoalStartSingleState ==
  (FirstCallReturned /\ np.start.state = GoalGrid(np.dim)) =>
    /\ Len(np.result) = 1
    /\ np.result[1].state = np.start.state
    /\ np.expanded = 0

\* C14 witness: solve() under the Euclidean heuristic has returned on
\* DefaultPuzzle::Fifteen::trivial
C14_Witness ==
  /\ FirstCallReturned /\ heuristic = 3
  /\ np.start.state = GoalGrid(4)
  /\ Len(np.result) = 1 /\ np.expanded = 0

\* C17: when a first solve() has returned, maxQueue is the largest number of
\* entries the frontier queue held during the call
C17_MaxQueueIsPeak ==
  FirstCallReturned => np.maxQueue = peak

\* C18: when solve() has returned, goalDepth is the number of states of the
\* returned path, 0 when the path is empty
C18_GoalDepthIsPathLength ==
  (pc = "returned" /\ calls >= 1) => np.goalDepth = Len(np.result)

\* C18 witness: a first solve() has returned a 3x3 path of five moves with
\* goal depth 6
C18_Witness ==
  /\ FirstCallReturned /\ np.dim = 3
  /\ Len(np.result) = 6 /\ np.goalDepth = 6
  /\ np.result[6].g = 5


\* C19: in a first solve() under UniformCost, MisplacedTile, Manhattan or
\* ManhattanLinearConflict, every child the coming iteration discards, its key
\* being in the frontier or the explored registry, is recorded there with a g
\* of at most the parent's g plus 1
C19_PruningKeepsBest ==
  (pc = "loop" /\ calls = 1 /\ frontierQueue # <<>> /\ heuristic \in {1, 2, 4, 5}) =>
    LET current    == QueueTop(frontierQueue)
        currentKey == getKey(np, current)
        children   == generateChildren(np, current)
    IN  (~isGoal(np, current) /\ MapGet(np.exploredStates, currentKey).state = <<>>) =>
          \A i \in 1..Len(children) :
            LET childKey == getKey(np, children[i])
                frontier == MapGet(np.frontierStates, childKey)
                explored == MapGet(np.exploredStates, childKey)
            IN  /\ frontier.state # <<>> => frontier.g <= current.g + 1
                /\ (frontier.state = <<>> /\ explored.state # <<>>) =>
                     explored.g <= current.g + 1

-----------------------------------------------------------------------------
(* Properties of the heuristics and of child generation *)

\* two tiles stand in one row, both at home in that row, the larger first; or
\* in one column, both at home in that column, the larger first
LineConflict(self, current) ==
  \E i, j \in 0..(self.len - 1) :
    LET ti == At(current.state, i)
        tj == At(current.state, j)
    IN  /\ i < j /\ ti # 0 /\ tj # 0 /\ tj < ti
        /\ \/ /\ i \div self.dim = j \div self.dim
              /\ (ti - 1) \div self.dim = i \div self.dim
              /\ (tj - 1) \div self.dim = i \div self.dim
           \/ /\ i % self.dim = j % self.dim
              /\ (ti - 1) % self.dim = i % self.dim
              /\ (tj - 1) % self.dim = i % self.dim

\* C15: manhattanDistLinearConflict is never below manhattanDist, and equals
\* it on a state without a row conflict and without a column conflict
C15_LinearConflictDominates ==
  pc = "moves" =>
    LET conflict  == manhattanDistLinearConflict(np, cur)
        manhattan == manhattanDist(np, cur)
    IN  /\ conflict >= manhattan
        /\ ~LineConflict(np, cur) => conflict = manhattan

\* C15 witness: a 3x3 state far from the goal without a conflict, on which
\* the two heuristics agree
C15_Witness ==
  /\ pc = "moves" /\ np.dim = 3
  /\ ~LineConflict(np, cur)
  /\ manhattanDist(np, cur) >= 10 * FloatOne
  /\ manhattanDistLinearConflict(np, cur) = manhattanDist(np, cur)

\* the move that undoes mv
Inverse(mv) == CASE mv = 1 -> 2 [] mv = 2 -> 1 [] mv = 3 -> 4 [] mv = 4 -> 3

\* C16: every child of a state has, by the inverse move, a child with the
\* state's tile sequence and blankIdx
C16_MovesReversible ==
  pc = "moves" =>
    LET children == generateChildren(np, cur)
    IN  \A i \in 1..Len(children) :
          LET back == generateChildren(np, children[i])
          IN  \E k \in 1..Len(back) :
                /\ back[k].move = Inverse(children[i].move)
                /\ back[k].state = cur.state
                /\ back[k].blankIdx = cur.blankIdx

\* C16 witness: a 3x3 state with the blank in the last cell, away from the
\* root, whose UP child has a DOWN child with the state's tiles
C16_Witness ==
  /\ pc = "moves" /\ np.dim = 3
  /\ cur.blankIdx = 8 /\ cur.state # np.start.state
  /\ generateChildren(np, cur)[1].move = 1
  /\ \E k \in 1..Len(generateChildren(np, generateChildren(np, cur)[1])) :
       LET b == generateChildren(np, generateChildren(np, cur)[1])[k]
       IN  b.move = 2 /\ b.state = cur.state

\* the tile sequence with the cells at indexes a and b exchanged
Swapped(state, a, b) ==
  [p \in 1..Len(state) |->
     IF p = a + 1 THEN state[b + 1] ELSE IF p = b + 1 THEN state[a + 1] ELSE state[p]]

\* C20: generateChildren returns, in the order UP, DOWN, LEFT, RIGHT, one
\* child for each direction whose guard holds and no other; a child has the
\* blank exchanged with the cell at blankIdx - dim, + dim, - 1, + 1, that cell
\* as its blankIdx and 1, 2, 3, 4 as its move
C20_ChildrenInOrder ==
  pc = "moves" =>
    LET children == generateChildren(np, cur)
        blankRow == cur.blankIdx \div np.dim
        blankCol == cur.blankIdx % np.dim
        guard    == <<blankRow > 0, blankRow < np.dim - 1,
                      blankCol > 0, blankCol < np.dim - 1>>
        target   == <<cur.blankIdx - np.dim, cur.blankIdx + np.dim,
                      cur.blankIdx - 1, cur.blankIdx + 1>>
        Holds(d) == guard[d]
        dirs     == SelectSeq(<<1, 2, 3, 4>>, Holds)
    IN  /\ Len(children) = Len(dirs)
        /\ \A k \in 1..Len(dirs) :
             /\ children[k].move = dirs[k]
             /\ children[k].blankIdx = target[dirs[k]]
             /\ children[k].state = Swapped(cur.state, cur.blankIdx, target[dirs[k]])
             /\ children[k].state[target[dirs[k]] + 1] = 0

\* C20 witness: a 4x4 state with the blank at index 5, several moves from the
\* goal, has the four children UP, DOWN, LEFT, RIGHT in that order
C20_Witness ==
  /\ pc = "moves" /\ np.dim = 4 /\ cur.blankIdx = 5 /\ steps >= 4
  /\ [k \in 1..Len(generateChildren(np, cur)) |-> generateChildren(np, cur)[k].move]
       = <<1, 2, 3, 4>>
  /\ generateChildren(np, cur)[3].blankIdx = 4

-----------------------------------------------------------------------------
(* Properties of the registries and of the returned path *)

\* C21: a non-empty path returned by solve() on a grid of at most 3x3 begins
\* with a state tagged START that has no parent key and g = 0, and each later
\* state is one of the children generateChildren gives for the state before it
\* (same tiles, blank index and move tag), carries that state's key as its
\* parent key, and has g equal to the number of moves made so far
C21_PathIsChainOfMoves ==
  (pc = "returned" /\ np.dim <= 3 /\ np.result # <<>>) =>
    LET path == np.result
    IN  /\ path[1].move = 0 /\ path[1].parentKey = "" /\ path[1].g = 0
        /\ \A i \in 1..(Len(path) - 1) :
             LET ch == generateChildren(np, path[i])
             IN  /\ \E k \in 1..Len(ch) :
                      /\ ch[k].state = path[i + 1].state
                      /\ ch[k].blankIdx = path[i + 1].blankIdx
                      /\ ch[k].move = path[i + 1].move
                 /\ path[i + 1].parentKey = getKey(np, path[i])
                 /\ path[i + 1].g = i

\* C21 witness: a 3x3 path of five moves returned under the Manhattan
\* heuristic, whose last state was reached by a move of the blank
C21_Witness ==
  /\ FirstCallReturned /\ np.dim = 3 /\ heuristic = 4
  /\ Len(np.result) = 6
  /\ np.result[6].move # 0 /\ np.result[6].g = 5

\* the keys under which a registry holds a state (an entry that operator[]
\* created, or that line 204 reset, has an empty tile sequence)
Held(registry) == {k \in DOMAIN registry : registry[k].state # <<>>}

\* the keys of the states in the priority queue
QueueKeys == {getKey(np, frontierQueue[i]) : i \in 1..Len(frontierQueue)}

\* C22: at the top of every loop iteration of a first solve(), the keys with a
\* non-empty entry in frontierStates are exactly the keys of the states in the
\* priority queue, and the queue holds no key twice
C22_FrontierMatchesQueue ==
  (pc = "loop" /\ calls = 1) =>
    /\ Held(np.frontierStates) = QueueKeys
    /\ Cardinality(QueueKeys) = Len(frontierQueue)

\* C22 witness: the top of an iteration of a first solve() on a 3x3 grid with
\* eight states waiting in the queue after five expansions
C22_Witness ==
  /\ pc = "loop" /\ calls = 1 /\ np.dim = 3
  /\ Len(frontierQueue) = 8 /\ np.expanded = 5
  /\ Cardinality(Held(np.frontierStates)) = 8

\* the states the two registries of an object hold
Registered(self) ==
  {self.frontierStates[k] : k \in Held(self.frontierStates)}
    \cup {self.exploredStates[k] : k \in Held(self.exploredStates)}

\* a registry entry that holds no state, or holds the start without a parent
\* key, or names a parent that the explored registry holds one move nearer to
\* the start
LinkedToParent(self, e) ==
  \/ e.state = <<>>
  \/ e.parentKey = "" /\ e.state = self.start.state /\ e.g = 0
  \/ /\ e.parentKey # ""
     /\ MapGet(self.exploredStates, e.parentKey).state # <<>>
     /\ MapGet(self.exploredStates, e.parentKey).g = e.g - 1

\* C23: every state held by the frontier or the explored registry with a
\* parent key has its parent held by the explored registry under that key, one
\* move nearer to the start (so the parent links never form a cycle), only the
\* start is held without a parent key, and the walk retracePath would make
\* from the state about to be popped ends at the start after as many links as
\* the state's g
C23_ParentChainsReachStart ==
  (pc \in {"loop", "returned"}) =>
    /\ \A k \in DOMAIN np.frontierStates :
         LinkedToParent(np, np.frontierStates[k])
    /\ \A k \in DOMAIN np.exploredStates :
         LinkedToParent(np, np.exploredStates[k])
    /\ frontierQueue # <<>> =>
         LET current == QueueTop(frontierQueue)
             path    == retracePath(np, current)
         IN  Len(path) = current.g + 1 /\ path[1].state = np.start.state

\* C23 witness: a search on a 3x3 grid has a frontier state four links away
\* from the start, and its grandparent is held by the explored registry
C23_Witness ==
  /\ pc = "loop" /\ np.dim = 3
  /\ \E k \in Held(np.frontierStates) :
       LET e == np.frontierStates[k]
       IN  /\ e.g = 4
           /\ np.exploredStates[e.parentKey].parentKey \in Held(np.exploredStates)

\* C24: in every step of a search on one object, each key the explored
\* registry holds keeps its entry: the same tiles, g, move tag and parent key
\* (and costs) as when the state was inserted
C24_ExploredEntriesFrozen ==
  [][pc' # "constructed" =>
       \A k \in Held(np.exploredStates) :
         /\ k \in DOMAIN np'.exploredStates
         /\ np'.exploredStates[k] = np.exploredStates[k]]_vars

\* C24 witness: a first solve() has returned a 3x3 path after ten expansions
\* and the explored registry still holds the start state as it was inserted
C24_Witness ==
  /\ FirstCallReturned /\ np.dim = 3
  /\ np.expanded = 10 /\ np.result # <<>>
  /\ Cardinality(Held(np.exploredStates)) = 10
  /\ np.exploredStates[getKey(np, np.start)].g = 0
  /\ np.exploredStates[getKey(np, np.start)].state = np.start.state

\* C25: during a first solve() no key is held by the frontier registry and by
\* the explored registry at once, the state about to be popped is the goal or
\* is not yet held by the explored registry (so its pop is an expansion), and
\* nodesExpanded is the number of keys the explored registry holds
C25_FrontierExploredDisjoint ==
  (calls = 1 /\ pc \in {"loop", "returned"}) =>
    /\ Held(np.frontierStates) \cap Held(np.exploredStates) = {}
    /\ np.expanded = Cardinality(Held(np.exploredStates))
    /\ (pc = "loop" /\ frontierQueue # <<>>) =>
         LET current == QueueTop(frontierQueue)
         IN  \/ isGoal(np, current)
             \/ /\ getKey(np, current) \notin Held(np.exploredStates)
                /\ SolveIterate(np, frontierQueue, heuristic).self.expanded
                     = np.expanded + 1

\* C25 witness: a first solve() on a 3x3 grid is about to pop a state that is
\* not the goal, with six states explored and others waiting in the frontier
C25_Witness ==
  /\ pc = "loop" /\ calls = 1 /\ np.dim = 3
  /\ np.expanded = 6 /\ Cardinality(Held(np.exploredStates)) = 6
  /\ Cardinality(Held(np.frontierStates)) >= 5
  /\ frontierQueue # <<>> /\ ~isGoal(np, QueueTop(frontierQueue))

\* C26, on grids whose arrangements have keys of their own: under UniformCost,
\* whichever state of least f each pop takes, every state the search has admitted (queued, explored, or returned as the goal)
\* carries as g its breadth-first distance from the start grid, and no queued
\* state has a smaller g than a state already popped and explored, so that
\* the states are popped in non-decreasing order of g
C26_UniformCostDistances ==
  (heuristic = 1 /\ calls = 1 /\ pc \in {"loop", "returned"}) =>
    LET admitted == Registered(np)
                      \cup (IF np.result = <<>> THEN {}
                            ELSE {np.result[Len(np.result)]})
        deepest  == CHOOSE d \in {e.g : e \in admitted} :
                      \A e \in admitted : e.g <= d
        layers   == BfsLayers({}, <<{np.start.state}>>, deepest)
    IN  /\ \A e \in admitted : e.state \in layers[e.g + 1]
        /\ \A i \in 1..Len(frontierQueue) :
             /\ frontierQueue[i] \in admitted
             /\ \A k \in Held(np.exploredStates) :
                  np.exploredStates[k].g <= frontierQueue[i].g

\* a search on which C26_UniformCostDistances says something: a UniformCost
\* search on a 3x3 grid where, after three
\* expansions, at least three queued states share the least f and a state
\* three moves from the start is queued
C26_Witness ==
  /\ pc = "loop" /\ calls = 1 /\ heuristic = 1 /\ np.dim = 3
  /\ np.expanded >= 3
  /\ Cardinality(Eligible(frontierQueue)) >= 3
  /\ \E i \in 1..Len(frontierQueue) : frontierQueue[i].g = 3

\* C26: under UniformCost every state one move from an explored state is
\* registered, as itself, with a g of at most the explored state's g plus one:
\* a state gets its shortest distance as g only if it is admitted at the
\* latest when the first of its neighbours is expanded, and the states behind
\* it only if it is admitted at all
C26_NeighboursAdmitted ==
  (heuristic = 1 /\ calls = 1 /\ pc = "loop") =>
    \A k \in Held(np.exploredStates) :
      LET e  == np.exploredStates[k]
          cs == generateChildren(np, e)
      IN  \A i \in 1..Len(cs) :
            LET ck == getKey(np, cs[i])
                r  == IF MapGet(np.frontierStates, ck).state # <<>>
                      THEN np.frontierStates[ck]
                      ELSE MapGet(np.exploredStates, ck)
            IN  r.state = cs[i].state /\ r.g <= e.g + 1

\* C27, on grids whose arrangements have keys of their own: every solve() call
\* that enters the while loop returns, and a first call on a grid the constructor marked solvable never finds the queue empty:
\* it returns by popping the goal, with a path that ends at the goal
C27_SolveTerminates ==
  /\ [](calls = 1 => ~(pc = "loop" /\ frontierQueue = <<>>))
  /\ []((FirstCallReturned /\ np.solvable) =>
          /\ np.result # <<>>
          /\ isGoal(np, np.result[Len(np.result)]))
  /\ (pc = "loop") ~> (pc = "returned")

\* a return at which C27_SolveTerminates says something: a first solve() on a
\* solvable 3x3 grid has returned a path to the goal after expanding at least thirty states
C27_Witness ==
  /\ FirstCallReturned /\ np.solvable /\ np.dim = 3
  /\ np.expanded >= 30
  /\ isGoal(np, np.result[Len(np.result)])

\* C27: a first solve() on a grid the constructor marked solvable ends by
\* popping the goal, so at the top of each of its iterations the goal is
\* either in the queue or can still be admitted to it, its key being held by
\* neither registry
C27_GoalCanBePopped ==
  (calls = 1 /\ pc = "loop" /\ np.solvable) =>
    \/ \E i \in 1..Len(frontierQueue) : isGoal(np, frontierQueue[i])
    \/ /\ GoalKey(np) \notin Held(np.frontierStates)
       /\ GoalKey(np) \notin Held(np.exploredStates)

\* a state of an object whose tile sequence has the start's length, holds each
\* of the numbers 0..length-1 once, and whose blankIdx is where the 0 is
WellFormed(self, e) ==
  /\ Len(e.state) = Len(self.start.state)
  /\ {e.state[i] : i \in 1..Len(e.state)} = 0..(Len(e.state) - 1)
  /\ e.blankIdx \in 0..(Len(e.state) - 1)
  /\ At(e.state, e.blankIdx) = 0

\* C28: every state held by the frontier registry or the explored registry,
\* waiting in the queue or standing in the returned path is a permutation of
\* 0..N as long as the start grid, with blankIdx at its single zero
C28_StatesArePermutations ==
  /\ \A e \in Registered(np) : WellFormed(np, e)
  /\ \A i \in 1..Len(frontierQueue) : WellFormed(np, frontierQueue[i])
  /\ \A i \in 1..Len(np.result) : WellFormed(np, np.result[i])

\* the unordered pairs of tiles in linear conflict, each written once with
\* the smaller index first: two tiles in one row that is the goal row of both,
\* or in one column that is the goal column of both, the larger tile first
ConflictPairs(self, current) ==
  {p \in (0..(self.len - 1)) \X (0..(self.len - 1)) :
     LET i  == p[1]
         j  == p[2]
         ti == At(current.state, i)
         tj == At(current.state, j)
     IN  /\ i < j /\ ti # 0 /\ tj # 0 /\ tj < ti
         /\ \/ /\ i \div self.dim = j \div self.dim
               /\ (ti - 1) \div self.dim = i \div self.dim
               /\ (tj - 1) \div self.dim = i \div self.dim
            \/ /\ i % self.dim = j % self.dim
               /\ (ti - 1) % self.dim = i % self.dim
               /\ (tj - 1) % self.dim = i % self.dim}

\* C29: on every state, manhattanDistLinearConflict exceeds manhattanDist by
\* exactly 2 for each unordered pair of tiles in linear conflict
C29_ConflictPenaltyIsTwicePairs ==
  pc = "moves" =>
    manhattanDistLinearConflict(np, cur) - manhattanDist(np, cur)
      = 2 * FloatOne * Cardinality(ConflictPairs(np, cur))

\* C29 witness: a 3x3 state with a pair in conflict in a row and a pair in
\* conflict in a column, three pairs or more in all
C29_Witness ==
  /\ pc = "moves" /\ np.dim = 3
  /\ Cardinality(ConflictPairs(np, cur)) >= 3
  /\ \E p, q \in ConflictPairs(np, cur) :
       /\ p[1] \div 3 = p[2] \div 3
       /\ q[1] % 3 = q[2] % 3
  /\ manhattanDistLinearConflict(np, cur) - manhattanDist(np, cur) >= 6 * FloatOne

\* C30: once a first solve() on an object has returned, no step of a later
\* solve() on that object changes the path it returns, nodesExpanded,
\* maxQueueSize or goalNodeDepth, whichever selector the later call is given
C30_RepeatedSolveKeepsRun ==
  [][(calls >= 1 /\ calls' >= 2) => RunOf(np') = RunOf(np)]_vars

\* C30 witness: a second solve() on one object has returned, under a selector
\* other than the first call's, with the five-move path and the statistics the
\* first call logged
C30_Witness ==
  /\ pc = "returned" /\ calls = 2 /\ np.dim = 3
  /\ Len(np.result) = 6 /\ np.expanded >= 6
  /\ \E h \in DOMAIN runs : h # heuristic /\ runs[h] = RunOf(np)

====
